---- MODULE Spec2Model ----
(* A model of the segmented commit log of internal/log: the memory-mapped   *)
(* index, the buffered store, the segment that pairs them, and the Log that  *)
(* routes appends and reads over an ordered list of segments.                *)
EXTENDS Integers, Sequences, FiniteSets, TLC

(***************************************************************************)
(* Bounds of the exploration                                               *)
(***************************************************************************)
MaxAppends == 4
MaxTruncates == 2
MaxCloses == 2
MaxReopens == 1
NThreads == 2
MaxConcAppends == 3
MaxK == 3

(***************************************************************************)
(* Program constants                                                       *)
(***************************************************************************)
offWidth == 4
posWidth == 8
entWidth == offWidth + posWidth
lenWidth == 8
DefaultMaxStoreBytes == 1024
DefaultMaxIndexBytes == entWidth * 3

(* Inputs: record payloads, configurations handed to NewLog, offsets asked for. *)
Values == { <<7>>, <<8, 9>> }
Configs == { [MaxStoreBytes |-> 0, MaxIndexBytes |-> 0, InitialOffset |-> 0],
             [MaxStoreBytes |-> 0, MaxIndexBytes |-> 0, InitialOffset |-> 1],
             [MaxStoreBytes |-> 20, MaxIndexBytes |-> 0, InitialOffset |-> 0] }
MaxOff == MaxAppends + 2
Offsets == 0 .. MaxOff
ConcConfigs == { [MaxStoreBytes |-> 0, MaxIndexBytes |-> 0, InitialOffset |-> 0],
                 [MaxStoreBytes |-> 20, MaxIndexBytes |-> 0, InitialOffset |-> 0] }
ConcOffsets == 0 .. MaxConcAppends

Nil == "nil"
EOF == "EOF"
ErrOffsetOutOfRange == "offset out of range"
IoError == "IoError"
Panic == "panic"

(***************************************************************************)
(* Bytes                                                                   *)
(***************************************************************************)
RECURSIVE Pow(_, _)
Pow(b, e) == IF e = 0 THEN 1 ELSE b * Pow(b, e - 1)

Zeros(n) == [i \in 1 .. n |-> 0]

(* enc.PutUint32 / enc.PutUint64: big-endian, w bytes; high bytes beyond the *)
(* range of the model's integers are zero.                                   *)
PutUint(n, w) == [i \in 1 .. w |-> IF w - i > 2 THEN 0 ELSE (n \div Pow(256, w - i)) % 256]

RECURSIVE Uint(_)
Uint(bs) == IF bs = <<>> THEN 0 ELSE Uint(SubSeq(bs, 1, Len(bs) - 1)) * 256 + bs[Len(bs)]

(* b[lo:hi] of Go, on a 1-based sequence *)
Slice(bs, lo, hi) == SubSeq(bs, lo + 1, hi)

(* overwrite bs[at : at+len(w)] *)
Overwrite(bs, at, w) == [i \in 1 .. Len(bs) |-> IF at < i /\ i <= at + Len(w) THEN w[i - at] ELSE bs[i]]

(* os.Truncate: cut, or grow with zero bytes *)
TruncateBytes(bs, n) == IF Len(bs) >= n THEN SubSeq(bs, 1, n) ELSE bs \o Zeros(n - Len(bs))

(***************************************************************************)
(* Record codec (protocol buffers: field 1 = value bytes, field 2 = offset)  *)
(***************************************************************************)
RECURSIVE Varint(_)
Varint(n) == IF n < 128 THEN <<n>> ELSE <<128 + (n % 128)>> \o Varint(n \div 128)

Marshal(r) ==
  (IF Len(r.value) > 0 THEN <<10>> \o Varint(Len(r.value)) \o r.value ELSE <<>>)
  \o (IF r.offset # 0 THEN <<16>> \o Varint(r.offset) ELSE <<>>)

RECURSIVE ReadVarint(_, _)
ReadVarint(bs, i) ==
  IF bs[i] < 128 THEN [v |-> bs[i], next |-> i + 1]
  ELSE LET r == ReadVarint(bs, i + 1) IN [v |-> (bs[i] - 128) + 128 * r.v, next |-> r.next]

RECURSIVE UnmarshalFrom(_, _, _)
UnmarshalFrom(bs, i, r) ==
  IF i > Len(bs) THEN r
  ELSE IF bs[i] = 10
       THEN LET l == ReadVarint(bs, i + 1) IN
            UnmarshalFrom(bs, l.next + l.v, [r EXCEPT !.value = SubSeq(bs, l.next, l.next + l.v - 1)])
       ELSE LET o == ReadVarint(bs, i + 1) IN
            UnmarshalFrom(bs, o.next, [r EXCEPT !.offset = o.v])

Unmarshal(bs) == UnmarshalFrom(bs, 1, [value |-> <<>>, offset |-> 0])

NoRecord == [value |-> <<>>, offset |-> 0]

(***************************************************************************)
(* File names: <base offset in decimal>.<ext>                              *)
(***************************************************************************)
RECURSIVE FormatUint(_)
FormatUint(n) == IF n < 10 THEN <<n>> ELSE FormatUint(n \div 10) \o <<n % 10>>

RECURSIVE ParseUint(_)
ParseUint(ds) == IF ds = <<>> THEN 0 ELSE ParseUint(SubSeq(ds, 1, Len(ds) - 1)) * 10 + ds[Len(ds)]

FileName(base, ext) == <<FormatUint(base), ext>>

(***************************************************************************)
(* index                                                                   *)
(***************************************************************************)
(* size is taken after the file was grown *)
newIndexSizedAfter(file, c) ==
  LET f2 == TruncateBytes(file, c.MaxIndexBytes) IN
  [idx |-> [mMap |-> f2, size |-> Len(f2), closed |-> FALSE, closes |-> 0], file |-> f2]

(* newIndex: size is the file's length, the file is then grown to            *)
(* MaxIndexBytes and mapped shared (the map and the file are one content).   *)
(* closes counts the times the file of this index was closed.                *)
newIndex(file, c) ==
  LET f2 == TruncateBytes(file, c.MaxIndexBytes) IN
  [idx |-> [mMap |-> f2, size |-> Len(file), closed |-> FALSE, closes |-> 0], file |-> f2]

(* a wrong stride: the entry is looked up offWidth bytes apart *)
indexReadStride(i, in) ==
  IF i.size = 0 THEN [out |-> 0, pos |-> 0, err |-> EOF]
  ELSE LET out == IF in = -1 THEN (i.size \div entWidth) - 1 ELSE in
           pos == out * offWidth
       IN IF i.size < pos + entWidth THEN [out |-> 0, pos |-> 0, err |-> EOF]
          ELSE [out |-> Uint(Slice(i.mMap, pos, pos + offWidth)),
                pos |-> Uint(Slice(i.mMap, pos + offWidth, pos + entWidth)),
                err |-> Nil]

indexRead(i, in) ==
  IF i.size = 0 THEN [out |-> 0, pos |-> 0, err |-> EOF]
  ELSE LET out == IF in = -1 THEN (i.size \div entWidth) - 1 ELSE in
           pos == out * entWidth
       IN IF i.size < pos + entWidth THEN [out |-> 0, pos |-> 0, err |-> EOF]
          ELSE [out |-> Uint(Slice(i.mMap, pos, pos + offWidth)),
                pos |-> Uint(Slice(i.mMap, pos + offWidth, pos + entWidth)),
                err |-> Nil]

(* the room is checked for the bytes written so far, not for the new entry *)
indexWriteLate(i, off, pos) ==
  IF Len(i.mMap) < i.size THEN [idx |-> i, err |-> EOF]
  ELSE [idx |-> [i EXCEPT !.mMap = Overwrite(Overwrite(@, i.size, PutUint(off, offWidth)),
                                              i.size + offWidth, PutUint(pos, posWidth)),
                          !.size = @ + entWidth],
        err |-> Nil]

indexWrite(i, off, pos) ==
  IF Len(i.mMap) < i.size + entWidth THEN [idx |-> i, err |-> EOF]
  ELSE [idx |-> [i EXCEPT !.mMap = Overwrite(Overwrite(@, i.size, PutUint(off, offWidth)),
                                              i.size + offWidth, PutUint(pos, posWidth)),
                          !.size = @ + entWidth],
        err |-> Nil]

(* the file is left at its mapped length *)
indexCloseNoTruncate(i, file) ==
  IF i.closed THEN [idx |-> i, file |-> file, err |-> IoError]
  ELSE [idx |-> [i EXCEPT !.closed = TRUE, !.closes = @ + 1], file |-> i.mMap, err |-> Nil]

(* the error of syncing a closed file is not looked at *)
indexCloseAgain(i, file) ==
  [idx |-> [i EXCEPT !.closed = TRUE, !.closes = @ + 1],
   file |-> TruncateBytes(i.mMap, i.size),
   err |-> Nil]

(* Close: sync, truncate the file to size, close the file; syncing a closed  *)
(* file fails and nothing else is done.                                      *)
indexClose(i, file) ==
  IF i.closed THEN [idx |-> i, file |-> file, err |-> IoError]
  ELSE [idx |-> [i EXCEPT !.closed = TRUE, !.closes = @ + 1],
        file |-> TruncateBytes(i.mMap, i.size),
        err |-> Nil]

(***************************************************************************)
(* store                                                                   *)
(***************************************************************************)
newStore(file) == [buf |-> <<>>, size |-> Len(file), closed |-> FALSE, closes |-> 0]

(* Append writes the frame into the buffer (the file is not touched) and   *)
(* returns the position of its length prefix.                               *)
storeAppend(s, p) ==
  [store |-> [s EXCEPT !.buf = @ \o PutUint(Len(p), lenWidth) \o p,
                       !.size = @ + lenWidth + Len(p)],
   n |-> lenWidth + Len(p), pos |-> s.size, err |-> Nil]

(* Read flushes the buffer into the file, then reads the frame at pos. *)
storeRead(s, file, pos) ==
  IF s.closed THEN [store |-> s, file |-> file, bytes |-> <<>>, err |-> IoError]
  ELSE LET f2 == file \o s.buf IN
       IF Len(f2) < pos + lenWidth
       THEN [store |-> [s EXCEPT !.buf = <<>>], file |-> f2, bytes |-> <<>>, err |-> IoError]
       ELSE LET l == Uint(Slice(f2, pos, pos + lenWidth)) IN
            IF Len(f2) < pos + lenWidth + l
            THEN [store |-> [s EXCEPT !.buf = <<>>], file |-> f2, bytes |-> <<>>, err |-> IoError]
            ELSE [store |-> [s EXCEPT !.buf = <<>>], file |-> f2,
                  bytes |-> Slice(f2, pos + lenWidth, pos + lenWidth + l), err |-> Nil]

storeClose(s, file) ==
  IF s.closed THEN [store |-> s, file |-> file, err |-> IoError]
  ELSE [store |-> [s EXCEPT !.buf = <<>>, !.closed = TRUE, !.closes = @ + 1],
        file |-> file \o s.buf, err |-> Nil]

(***************************************************************************)
(* The directory: a function from file names to file contents              *)
(***************************************************************************)
Put(f, k, v) == [x \in (DOMAIN f) \cup {k} |-> IF x = k THEN v ELSE f[x]]
Del(f, k) == [x \in (DOMAIN f) \ {k} |-> f[x]]
EmptyDir == [x \in {} |-> <<>>]
FileOr(d, name) == IF name \in DOMAIN d THEN d[name] ELSE <<>>

(***************************************************************************)
(* segment.  A log state L is the record                                   *)
(*   [segs, segments, activeSegment, dir]:                                 *)
(* segs is the heap of segment objects (a segment pointer is an index into *)
(* it), segments and activeSegment are the fields of Log, dir is the       *)
(* directory on disk.                                                      *)
(***************************************************************************)
StoreName(s) == FileName(s.baseOffset, "store")
IndexName(s) == FileName(s.baseOffset, "index")

(* newSegment(dir, baseOffset, c): open or create both files, then          *)
(* nextOffset is baseOffset for an empty index, else one past its last entry *)
segmentNew(d, base, c) ==
  LET sfile == FileOr(d, FileName(base, "store"))
      ni == newIndex(FileOr(d, FileName(base, "index")), c)
      last == indexRead(ni.idx, -1)
  IN [seg |-> [baseOffset |-> base,
               nextOffset |-> IF last.err # Nil THEN base ELSE base + last.out + 1,
               index |-> ni.idx,
               store |-> newStore(sfile)],
      dir |-> Put(Put(d, FileName(base, "store"), sfile), FileName(base, "index"), ni.file)]

(* the mapping is shared: a write to an open index is a write to its file *)
SyncIndexFile(d, s) ==
  IF ~s.index.closed /\ IndexName(s) \in DOMAIN d THEN Put(d, IndexName(s), s.index.mMap) ELSE d

(* Append, first half: the offset is read, the record marshalled and framed *)
(* into the store.                                                           *)
segmentAppendStore(L, id, v) ==
  LET s == L.segs[id]
      cur == s.nextOffset
      a == storeAppend(s.store, Marshal([value |-> v, offset |-> cur]))
  IN [L |-> [L EXCEPT !.segs[id].store = a.store], cur |-> cur, pos |-> a.pos, err |-> a.err]

(* Append, second half: the index entry is written and nextOffset advances *)
segmentAppendIndex(L, id, cur, pos) ==
  LET s == L.segs[id]
      w == indexWrite(s.index, s.nextOffset - s.baseOffset, pos)
      s2 == [s EXCEPT !.index = w.idx, !.nextOffset = @ + 1]
  IN IF w.err # Nil THEN [L |-> L, off |-> 0, err |-> w.err]
     ELSE [L |-> [L EXCEPT !.segs[id] = s2, !.dir = SyncIndexFile(@, s2)], off |-> cur, err |-> Nil]

segmentAppend(L, id, v) ==
  LET a == segmentAppendStore(L, id, v)
  IN IF a.err # Nil THEN [L |-> a.L, off |-> 0, err |-> a.err]
     ELSE segmentAppendIndex(a.L, id, a.cur, a.pos)

segmentRead(L, id, off) ==
  LET s == L.segs[id]
      e == indexRead(s.index, off - s.baseOffset)
      r == storeRead(s.store, FileOr(L.dir, StoreName(s)), e.pos)
      L1 == [L EXCEPT !.segs[id].store = r.store,
                      !.dir = IF s.store.closed THEN @ ELSE Put(@, StoreName(s), r.file)]
  IN IF e.err # Nil THEN [L |-> L, rec |-> NoRecord, err |-> e.err]
     ELSE IF r.err # Nil THEN [L |-> L1, rec |-> NoRecord, err |-> r.err]
     ELSE [L |-> L1, rec |-> Unmarshal(r.bytes), err |-> Nil]

IsMaxed(s, c) ==
  \/ s.store.size >= c.MaxStoreBytes
  \/ s.index.size + entWidth > c.MaxIndexBytes

(* Close: the index, then the store; the first error wins *)
segmentClose(L, id) ==
  LET s == L.segs[id]
      ic == indexClose(s.index, FileOr(L.dir, IndexName(s)))
      d1 == IF IndexName(s) \in DOMAIN L.dir THEN Put(L.dir, IndexName(s), ic.file) ELSE L.dir
      sc == storeClose(s.store, FileOr(d1, StoreName(s)))
      d2 == IF StoreName(s) \in DOMAIN d1 THEN Put(d1, StoreName(s), sc.file) ELSE d1
  IN IF ic.err # Nil THEN [L |-> L, err |-> ic.err]
     ELSE IF sc.err # Nil
          THEN [L |-> [L EXCEPT !.segs[id].index = ic.idx, !.dir = d1], err |-> sc.err]
          ELSE [L |-> [L EXCEPT !.segs[id].index = ic.idx, !.segs[id].store = sc.store, !.dir = d2],
                err |-> Nil]

(* Remove: Close, then unlink both files *)
segmentRemove(L, id) ==
  LET c == segmentClose(L, id)
      s == L.segs[id]
  IN IF c.err # Nil THEN c
     ELSE [L |-> [c.L EXCEPT !.dir = Del(Del(@, IndexName(s)), StoreName(s))], err |-> Nil]

(***************************************************************************)
(* Log                                                                     *)
(***************************************************************************)
(* NewLog: defaults for the limits the caller left at zero *)
NewLogConfig(c) ==
  [MaxStoreBytes |-> IF c.MaxStoreBytes = 0 THEN DefaultMaxStoreBytes ELSE c.MaxStoreBytes,
   MaxIndexBytes |-> IF c.MaxIndexBytes = 0 THEN DefaultMaxIndexBytes ELSE c.MaxIndexBytes,
   InitialOffset |-> c.InitialOffset]

EmptyLog(d) == [segs |-> <<>>, segments |-> <<>>, activeSegment |-> 0, dir |-> d]

LognewSegment(L, c, off) ==
  LET n == segmentNew(L.dir, off, c)
      id == Len(L.segs) + 1
  IN [L EXCEPT !.segs = Append(@, n.seg), !.segments = Append(@, id),
               !.activeSegment = id, !.dir = n.dir]

(* the base offset parsed from every file name, ascending (one per file) *)
RECURSIVE SortedBaseOffsets(_)
SortedBaseOffsets(names) ==
  IF names = {} THEN <<>>
  ELSE LET m == CHOOSE x \in names : \A y \in names : ParseUint(x[1]) <= ParseUint(y[1])
       IN <<ParseUint(m[1])>> \o SortedBaseOffsets(names \ {m})

(* a segment for every file, not for every other one *)
RECURSIVE setupLoopEveryFile(_, _, _, _)
setupLoopEveryFile(L, c, baseOffsets, i) ==
  IF i > Len(baseOffsets) THEN L
  ELSE setupLoopEveryFile(LognewSegment(L, c, baseOffsets[i]), c, baseOffsets, i + 1)

(* for i := 0; i < len(baseOffsets); i++ { newSegment(baseOffsets[i]); i++ } *)
RECURSIVE setupLoop(_, _, _, _)
setupLoop(L, c, baseOffsets, i) ==
  IF i > Len(baseOffsets) THEN L
  ELSE setupLoop(LognewSegment(L, c, baseOffsets[i]), c, baseOffsets, i + 2)

setup(L, c) ==
  LET L1 == setupLoop(L, c, SortedBaseOffsets(DOMAIN L.dir), 1)
  IN IF L1.segments = <<>> THEN LognewSegment(L1, c, c.InitialOffset) ELSE L1

(* a failed append rotates as well, past the offset it did not assign *)
LogAppendRotateOnError(L, c, v) ==
  LET a == segmentAppend(L, L.activeSegment, v)
  IN IF a.err # Nil
     THEN [L |-> LognewSegment(a.L, c, a.L.segs[a.L.activeSegment].nextOffset + 1),
           off |-> 0, err |-> a.err]
     ELSE IF IsMaxed(a.L.segs[a.L.activeSegment], c)
          THEN [L |-> LognewSegment(a.L, c, a.off + 1), off |-> a.off, err |-> Nil]
          ELSE [L |-> a.L, off |-> a.off, err |-> Nil]

(* the new segment starts at the offset just assigned *)
LogAppendRotateAtOff(L, c, v) ==
  LET a == segmentAppend(L, L.activeSegment, v)
  IN IF a.err # Nil THEN [L |-> a.L, off |-> 0, err |-> a.err]
     ELSE IF IsMaxed(a.L.segs[a.L.activeSegment], c)
          THEN [L |-> LognewSegment(a.L, c, a.off), off |-> a.off, err |-> Nil]
          ELSE [L |-> a.L, off |-> a.off, err |-> Nil]

LogAppend(L, c, v) ==
  LET a == segmentAppend(L, L.activeSegment, v)
  IN IF a.err # Nil THEN [L |-> a.L, off |-> 0, err |-> a.err]
     ELSE IF IsMaxed(a.L.segs[a.L.activeSegment], c)
          THEN [L |-> LognewSegment(a.L, c, a.off + 1), off |-> a.off, err |-> Nil]
          ELSE [L |-> a.L, off |-> a.off, err |-> Nil]

(* the upper end taken as inclusive *)
InRangeInclusive(s, off) == s.baseOffset <= off /\ off <= s.nextOffset

InRange(s, off) == s.baseOffset <= off /\ off < s.nextOffset

(* the first segment of the list whose range holds off, or 0 *)
FindSegment(L, off) ==
  LET hits == {i \in 1 .. Len(L.segments) : InRange(L.segs[L.segments[i]], off)}
  IN IF hits = {} THEN 0 ELSE L.segments[CHOOSE i \in hits : \A j \in hits : i <= j]

LogRead(L, off) ==
  LET s == FindSegment(L, off)
  IN IF s = 0 THEN [L |-> L, rec |-> NoRecord, err |-> ErrOffsetOutOfRange]
     ELSE segmentRead(L, s, off)

RECURSIVE closeLoop(_, _)
closeLoop(L, i) ==
  IF i > Len(L.segments) THEN [L |-> L, err |-> Nil]
  ELSE LET c == segmentClose(L, L.segments[i])
       IN IF c.err # Nil THEN c ELSE closeLoop(c.L, i + 1)

LogClose(L) == closeLoop(L, 1)

LogLowestOffset(L) ==
  IF L.segments = <<>> THEN [off |-> 0, err |-> Panic]
  ELSE [off |-> L.segs[L.segments[1]].baseOffset, err |-> Nil]

(* the zero check left out *)
LogHighestOffsetNoZero(L) ==
  IF L.segments = <<>> THEN [off |-> 0, err |-> Panic]
  ELSE [off |-> L.segs[L.segments[Len(L.segments)]].nextOffset - 1, err |-> Nil]

LogHighestOffset(L) ==
  IF L.segments = <<>> THEN [off |-> 0, err |-> Panic]
  ELSE LET off == L.segs[L.segments[Len(L.segments)]].nextOffset
       IN IF off = 0 THEN [off |-> 0, err |-> Nil] ELSE [off |-> off - 1, err |-> Nil]

(* the segment that holds lowest itself is not removed *)
TruncateCondStrict(s, lowest) == s.nextOffset < lowest + 1

TruncateCond(s, lowest) == s.nextOffset <= lowest + 1

RECURSIVE truncateLoop(_, _, _, _)
truncateLoop(L, lowest, i, kept) ==
  IF i > Len(L.segments) THEN [L |-> [L EXCEPT !.segments = kept], err |-> Nil]
  ELSE IF TruncateCond(L.segs[L.segments[i]], lowest)
       THEN LET r == segmentRemove(L, L.segments[i])
            IN IF r.err # Nil THEN r ELSE truncateLoop(r.L, lowest, i + 1, kept)
       ELSE truncateLoop(L, lowest, i + 1, Append(kept, L.segments[i]))

LogTruncate(L, lowest) == truncateLoop(L, lowest, 1, <<>>)

(* Remove: Close, then os.Remove(l.Dir), which removes a directory only     *)
(* when it exists and is empty.                                              *)
LogRemove(L, exists) ==
  LET c == LogClose(L)
  IN IF c.err # Nil THEN [L |-> c.L, exists |-> exists, err |-> c.err]
     ELSE IF ~exists \/ DOMAIN c.L.dir # {}
          THEN [L |-> c.L, exists |-> exists, err |-> IoError]
          ELSE [L |-> c.L, exists |-> FALSE, err |-> Nil]

(* setup as Reset calls it, on the Log as Remove left it: os.ReadDir fails  *)
(* when the directory is gone.                                               *)
setupAgain(r, c) ==
  IF ~r.exists THEN [L |-> r.L, exists |-> r.exists, err |-> IoError]
  ELSE [L |-> setup(r.L, c), exists |-> r.exists, err |-> Nil]

(* Reset: Remove, then setup *)
LogResetAfter(r, c) == IF r.err # Nil THEN r ELSE setupAgain(r, c)

LogReset(L, c, exists) == LogResetAfter(LogRemove(L, exists), c)

(***************************************************************************)
(* Log.Reader: one originReader per segment of the list, read in turn      *)
(***************************************************************************)
(* store.ReadAt(p, off) with len(p) = n: flush the buffer, then copy what   *)
(* the file holds from off on; fewer than n bytes come with EOF.            *)
storeReadAt(s, file, n, off) ==
  IF s.closed THEN [store |-> s, file |-> file, bytes |-> <<>>, err |-> IoError]
  ELSE LET f2 == file \o s.buf
           hi == IF Len(f2) < off + n THEN Len(f2) ELSE off + n
       IN [store |-> [s EXCEPT !.buf = <<>>], file |-> f2,
           bytes |-> IF off >= Len(f2) THEN <<>> ELSE Slice(f2, off, hi),
           err |-> IF hi < off + n THEN EOF ELSE Nil]

(* readers[i] = &originReader{segment.store, 0} *)
LogReader(L) == [i \in 1 .. Len(L.segments) |-> [seg |-> L.segments[i], off |-> 0]]

(* n, err := o.store.ReadAt(p, o.off); o.off += int64(n) *)
originRead(L, o, n) ==
  LET s == L.segs[o.seg]
      r == storeReadAt(s.store, FileOr(L.dir, StoreName(s)), n, o.off)
  IN [L |-> [L EXCEPT !.segs[o.seg].store = r.store,
                      !.dir = IF s.store.closed THEN @ ELSE Put(@, StoreName(s), r.file)],
      o |-> [o EXCEPT !.off = @ + Len(r.bytes)], bytes |-> r.bytes, err |-> r.err]

(* one Read(p) of the io.MultiReader: a reader that reports EOF is dropped,  *)
(* and the call returns as soon as bytes or another error came.              *)
RECURSIVE multiRead(_, _, _)
multiRead(L, readers, n) ==
  IF readers = <<>> THEN [L |-> L, readers |-> <<>>, bytes |-> <<>>, err |-> EOF]
  ELSE LET r == originRead(L, Head(readers), n)
           rest == IF r.err = EOF THEN Tail(readers) ELSE <<r.o>> \o Tail(readers)
       IN IF Len(r.bytes) > 0 \/ r.err # EOF
          THEN [L |-> r.L, readers |-> rest, bytes |-> r.bytes,
                err |-> IF r.err = EOF /\ rest # <<>> THEN Nil ELSE r.err]
          ELSE multiRead(r.L, rest, n)


(***************************************************************************)
(* State                                                                   *)
(***************************************************************************)
VARIABLES
  segs,           \* the segment objects of the current Log, by pointer
  segments,       \* Log.segments: a list of pointers
  activeSegment,  \* Log.activeSegment: a pointer
  dir,            \* the files of Log.Dir
  Config,         \* Log.Config, after NewLog's defaults
  last,           \* the last call made on the log and what it returned
  hist,           \* the successful appends so far: <<[off, value], ...>>
  nAppends, nTruncates, nCloses, nReopens,
  mu,             \* Log.mu: the thread that holds the lock, or 0
  pc,             \* where each thread stands in the call it is making
  loc,            \* the locals of each thread's call
  dirExists,      \* whether the directory Log.Dir exists
  rd              \* the stream Log.Reader returned, and what was read from it

thr == <<mu, pc, loc>>

vars == <<segs, segments, activeSegment, dir, Config, last, hist,
          nAppends, nTruncates, nCloses, nReopens, mu, pc, loc, dirExists, rd>>

Threads == 1 .. NThreads

Idle == [op |-> "none", arg |-> 0, seg |-> 0, cur |-> 0, pos |-> 0,
         off |-> 0, rec |-> NoRecord, err |-> Nil, done |-> 0]

Cur == [segs |-> segs, segments |-> segments, activeSegment |-> activeSegment, dir |-> dir]

SetLog(L) ==
  /\ segs' = L.segs
  /\ segments' = L.segments
  /\ activeSegment' = L.activeSegment
  /\ dir' = L.dir

Call(op, arg, off, rec, err) == [op |-> op, arg |-> arg, off |-> off, rec |-> rec, err |-> err]

(* no stream: Log.Reader was not called *)
NoReader == [open |-> FALSE, snap |-> <<>>, readers |-> <<>>, out |-> <<>>,
             err |-> Nil, hl |-> 0, na |-> 0]

InitWith(cfgs) ==
  \E c \in cfgs :
    /\ Config = NewLogConfig(c)
    /\ LET L == setup(EmptyLog(EmptyDir), NewLogConfig(c))
       IN /\ segs = L.segs
          /\ segments = L.segments
          /\ activeSegment = L.activeSegment
          /\ dir = L.dir
    /\ last = Call("NewLog", 0, 0, NoRecord, Nil)
    /\ hist = <<>>
    /\ nAppends = 0 /\ nTruncates = 0 /\ nCloses = 0 /\ nReopens = 0
    /\ mu = 0
    /\ pc = [t \in Threads |-> "idle"]
    /\ loc = [t \in Threads |-> Idle]
    /\ dirExists = TRUE
    /\ rd = NoReader

Init == InitWith(Configs)

(***************************************************************************)
(* Operations                                                              *)
(***************************************************************************)
CallAppend(v) ==
  /\ nAppends < MaxAppends
  /\ LET r == LogAppend(Cur, Config, v)
     IN /\ SetLog(r.L)
        /\ last' = Call("Append", v, r.off, NoRecord, r.err)
        /\ hist' = IF r.err = Nil THEN Append(hist, [off |-> r.off, value |-> v]) ELSE hist
  /\ nAppends' = nAppends + 1
  /\ UNCHANGED thr
  /\ UNCHANGED <<Config, dirExists, rd, nTruncates, nCloses, nReopens>>

CallRead(off) ==
  /\ LET r == LogRead(Cur, off)
     IN /\ SetLog(r.L)
        /\ last' = Call("Read", off, 0, r.rec, r.err)
  /\ UNCHANGED thr
  /\ UNCHANGED <<Config, dirExists, rd, hist, nAppends, nTruncates, nCloses, nReopens>>

CallLowestOffset ==
  /\ LET r == LogLowestOffset(Cur)
     IN last' = Call("LowestOffset", 0, r.off, NoRecord, r.err)
  /\ UNCHANGED thr
  /\ UNCHANGED <<segs, segments, activeSegment, dir, Config, dirExists, rd, hist,
                 nAppends, nTruncates, nCloses, nReopens>>

CallHighestOffset ==
  /\ LET r == LogHighestOffset(Cur)
     IN last' = Call("HighestOffset", 0, r.off, NoRecord, r.err)
  /\ UNCHANGED thr
  /\ UNCHANGED <<segs, segments, activeSegment, dir, Config, dirExists, rd, hist,
                 nAppends, nTruncates, nCloses, nReopens>>

CallTruncate(lowest) ==
  /\ nTruncates < MaxTruncates
  /\ LET r == LogTruncate(Cur, lowest)
     IN /\ SetLog(r.L)
        /\ last' = Call("Truncate", lowest, 0, NoRecord, r.err)
  /\ nTruncates' = nTruncates + 1
  /\ UNCHANGED thr
  /\ UNCHANGED <<Config, dirExists, rd, hist, nAppends, nCloses, nReopens>>

CallClose ==
  /\ nCloses < MaxCloses
  /\ LET r == LogClose(Cur)
     IN /\ SetLog(r.L)
        /\ last' = Call("Close", 0, 0, NoRecord, r.err)
  /\ nCloses' = nCloses + 1
  /\ UNCHANGED thr
  /\ UNCHANGED <<Config, dirExists, rd, hist, nAppends, nTruncates, nReopens>>

(* NewLog on the same directory with the same configuration, once the log   *)
(* was closed.                                                               *)
CallNewLog ==
  /\ nReopens < MaxReopens
  /\ last.op = "Close" /\ last.err = Nil
  /\ SetLog(setup(EmptyLog(dir), Config))
  /\ last' = Call("NewLog", 0, 0, NoRecord, Nil)
  /\ nReopens' = nReopens + 1
  /\ UNCHANGED thr
  /\ UNCHANGED <<Config, dirExists, rd, hist, nAppends, nTruncates, nCloses>>

NextAppend ==
  \/ \E v \in Values : CallAppend(v)
  \/ \E off \in Offsets : CallRead(off)
  \/ CallLowestOffset
  \/ CallHighestOffset

SpecAppend == Init /\ [][NextAppend]_vars

Next ==
  \/ \E v \in Values : CallAppend(v)
  \/ \E off \in Offsets : CallRead(off)
  \/ CallLowestOffset
  \/ CallHighestOffset
  \/ \E lowest \in Offsets : CallTruncate(lowest)

Spec == Init /\ [][Next]_vars

NextClose ==
  \/ \E v \in Values : CallAppend(v)
  \/ \E off \in Offsets : CallRead(off)
  \/ CallHighestOffset
  \/ CallClose
  \/ CallNewLog

SpecClose == Init /\ [][NextClose]_vars

(***************************************************************************)
(* Threads: every call takes Log.mu, runs its body and releases the lock.  *)
(* The body of Append is three steps: the two halves of segment.Append and *)
(* the rotation.                                                           *)
(***************************************************************************)
(* a Lock that lets a second thread in *)
LockNoExclusion(t) == mu' = t

Lock(t) == mu = 0 /\ mu' = t

Unlock(t) == mu' = 0

TBegin(t, op, arg) ==
  /\ pc[t] = "idle"
  /\ Lock(t)
  /\ op = "Append" => nAppends < MaxConcAppends
  /\ nAppends' = IF op = "Append" THEN nAppends + 1 ELSE nAppends
  /\ pc' = [pc EXCEPT ![t] = op]
  /\ loc' = [loc EXCEPT ![t] = [Idle EXCEPT !.op = op, !.arg = arg, !.done = loc[t].done]]
  /\ UNCHANGED <<segs, segments, activeSegment, dir, Config, dirExists, rd, last, hist,
                 nTruncates, nCloses, nReopens>>

(* off, err := l.activeSegment.Append(record): first half *)
TAppendStore(t) ==
  /\ pc[t] = "Append"
  /\ LET a == segmentAppendStore(Cur, activeSegment, loc[t].arg)
     IN /\ SetLog(a.L)
        /\ loc' = [loc EXCEPT ![t].seg = activeSegment, ![t].cur = a.cur,
                              ![t].pos = a.pos, ![t].err = a.err]
        /\ pc' = [pc EXCEPT ![t] = IF a.err # Nil THEN "return" ELSE "index"]
  /\ UNCHANGED <<Config, dirExists, rd, last, hist, nAppends, nTruncates, nCloses, nReopens, mu>>

(* second half; if err != nil { return 0, err } *)
TAppendIndex(t) ==
  /\ pc[t] = "index"
  /\ LET r == segmentAppendIndex(Cur, loc[t].seg, loc[t].cur, loc[t].pos)
     IN /\ SetLog(r.L)
        /\ loc' = [loc EXCEPT ![t].off = r.off, ![t].err = r.err]
        /\ pc' = [pc EXCEPT ![t] = IF r.err # Nil THEN "return" ELSE "rotate"]
  /\ UNCHANGED <<Config, dirExists, rd, last, hist, nAppends, nTruncates, nCloses, nReopens, mu>>

(* if l.activeSegment.IsMaxed() { err = l.newSegment(off + 1) } *)
TRotate(t) ==
  /\ pc[t] = "rotate"
  /\ IF IsMaxed(segs[activeSegment], Config)
     THEN SetLog(LognewSegment(Cur, Config, loc[t].off + 1))
     ELSE UNCHANGED <<segs, segments, activeSegment, dir>>
  /\ pc' = [pc EXCEPT ![t] = "return"]
  /\ UNCHANGED <<Config, dirExists, rd, last, hist, nAppends, nTruncates, nCloses, nReopens, mu, loc>>

TRead(t) ==
  /\ pc[t] = "Read"
  /\ LET r == LogRead(Cur, loc[t].arg)
     IN /\ SetLog(r.L)
        /\ loc' = [loc EXCEPT ![t].rec = r.rec, ![t].err = r.err]
  /\ pc' = [pc EXCEPT ![t] = "return"]
  /\ UNCHANGED <<Config, dirExists, rd, last, hist, nAppends, nTruncates, nCloses, nReopens, mu>>

TLowestOffset(t) ==
  /\ pc[t] = "LowestOffset"
  /\ LET r == LogLowestOffset(Cur)
     IN loc' = [loc EXCEPT ![t].off = r.off, ![t].err = r.err]
  /\ pc' = [pc EXCEPT ![t] = "return"]
  /\ UNCHANGED <<segs, segments, activeSegment, dir, Config, dirExists, rd, last, hist,
                 nAppends, nTruncates, nCloses, nReopens, mu>>

THighestOffset(t) ==
  /\ pc[t] = "HighestOffset"
  /\ LET r == LogHighestOffset(Cur)
     IN loc' = [loc EXCEPT ![t].off = r.off, ![t].err = r.err]
  /\ pc' = [pc EXCEPT ![t] = "return"]
  /\ UNCHANGED <<segs, segments, activeSegment, dir, Config, dirExists, rd, last, hist,
                 nAppends, nTruncates, nCloses, nReopens, mu>>

(* the deferred Unlock, and the call returns *)
TReturn(t) ==
  /\ pc[t] = "return"
  /\ Unlock(t)
  /\ last' = Call(loc[t].op, loc[t].arg, loc[t].off, loc[t].rec, loc[t].err)
  /\ hist' = IF loc[t].op = "Append" /\ loc[t].err = Nil
             THEN Append(hist, [off |-> loc[t].off, value |-> loc[t].arg])
             ELSE hist
  /\ loc' = [loc EXCEPT ![t] = [Idle EXCEPT !.done = IF loc[t].op = "Append" /\ loc[t].err = Nil
                                                      THEN 1 ELSE loc[t].done]]
  /\ pc' = [pc EXCEPT ![t] = "idle"]
  /\ UNCHANGED <<segs, segments, activeSegment, dir, Config, dirExists, rd,
                 nAppends, nTruncates, nCloses, nReopens>>

NextConc ==
  \E t \in Threads :
    \/ \E v \in Values : TBegin(t, "Append", v)
    \/ \E off \in ConcOffsets : TBegin(t, "Read", off)
    \/ TBegin(t, "LowestOffset", 0)
    \/ TBegin(t, "HighestOffset", 0)
    \/ TAppendStore(t)
    \/ TAppendIndex(t)
    \/ TRotate(t)
    \/ TRead(t)
    \/ TLowestOffset(t)
    \/ THighestOffset(t)
    \/ TReturn(t)

InitConc == InitWith(ConcConfigs)

SpecConc == InitConc /\ [][NextConc]_vars

(***************************************************************************)
(* The bulk reader.  Reader() takes the lock shared for the snapshot; the  *)
(* stream it returns is read without it.                                   *)
(***************************************************************************)
AnyConfigs == Configs \cup { [MaxStoreBytes |-> 0, MaxIndexBytes |-> 5, InitialOffset |-> 0] }
ChunkSizes == { 5, 64 }

InitAny == InitWith(AnyConfigs)

CallReader ==
  /\ ~rd.open
  /\ mu = 0
  /\ rd' = [open |-> TRUE, snap |-> segments, readers |-> LogReader(Cur), out |-> <<>>,
            err |-> Nil, hl |-> Len(hist), na |-> nAppends]
  /\ last' = Call("Reader", 0, 0, NoRecord, Nil)
  /\ UNCHANGED thr
  /\ UNCHANGED <<segs, segments, activeSegment, dir, Config, dirExists, hist,
                 nAppends, nTruncates, nCloses, nReopens>>

(* one Read(p), len(p) = n, on the stream *)
StreamRead(n) ==
  /\ rd.open /\ rd.err = Nil
  /\ LET r == multiRead(Cur, rd.readers, n)
     IN /\ SetLog(r.L)
        /\ rd' = [rd EXCEPT !.readers = r.readers, !.out = @ \o r.bytes, !.err = r.err]
  /\ UNCHANGED thr
  /\ UNCHANGED <<Config, dirExists, last, hist, nAppends, nTruncates, nCloses, nReopens>>

NextReader ==
  \/ \E v \in Values : CallAppend(v)
  \/ CallReader
  \/ \E n \in ChunkSizes : StreamRead(n)

SpecReader == InitAny /\ [][NextReader]_vars

(* every configuration NewLog accepts, appends and reads *)
SpecAny == InitAny /\ [][NextAppend]_vars

(***************************************************************************)
(* The end of a log: Close, Remove and Reset after the appends, with        *)
(* Truncate at any time.                                                     *)
(***************************************************************************)
CallRemove ==
  /\ nCloses < MaxCloses
  /\ LET r == LogRemove(Cur, dirExists)
     IN /\ SetLog(r.L)
        /\ dirExists' = r.exists
        /\ last' = Call("Remove", 0, 0, NoRecord, r.err)
  /\ nCloses' = nCloses + 1
  /\ UNCHANGED thr
  /\ UNCHANGED <<Config, rd, hist, nAppends, nTruncates, nReopens>>

CallReset ==
  /\ nCloses < MaxCloses
  /\ LET r == LogReset(Cur, Config, dirExists)
     IN /\ SetLog(r.L)
        /\ dirExists' = r.exists
        /\ last' = Call("Reset", 0, 0, NoRecord, r.err)
  /\ nCloses' = nCloses + 1
  /\ UNCHANGED thr
  /\ UNCHANGED <<Config, rd, hist, nAppends, nTruncates, nReopens>>

(* an Append made before the first Close, Remove or Reset *)
AppendWhileOpen(v) == nCloses = 0 /\ CallAppend(v)

NextLife ==
  \/ \E v \in Values : AppendWhileOpen(v)
  \/ \E lowest \in Offsets : CallTruncate(lowest)
  \/ CallClose
  \/ CallRemove
  \/ CallReset

SpecLife == Init /\ [][NextLife]_vars

(***************************************************************************)
(* Rotation by the index alone: room for k entries, for several k and base *)
(* offsets.                                                                  *)
(***************************************************************************)
RotConfigs ==
  { [MaxStoreBytes |-> 0, MaxIndexBytes |-> entWidth * k, InitialOffset |-> b] :
      k \in 1 .. MaxK, b \in {0, 16} }

InitRot == InitWith(RotConfigs)

NextRot ==
  \/ \E v \in Values : CallAppend(v)
  \/ CallLowestOffset
  \/ CallHighestOffset

SpecRot == InitRot /\ [][NextRot]_vars

(* appends, truncations, and a close followed by a reopen *)
NextChain ==
  \/ \E v \in Values : CallAppend(v)
  \/ \E lowest \in Offsets : CallTruncate(lowest)
  \/ CallClose
  \/ CallNewLog

SpecChain == Init /\ [][NextChain]_vars

(***************************************************************************)
(* One segment on its own, as TestSegment drives it: newSegment(dir, b, c) *)
(* is the state NewLog leaves for InitialOffset b, and the calls go to the  *)
(* segment, so nothing rotates.                                              *)
(***************************************************************************)
SegOffsets == 0 .. MaxAppends

SegAppend(v) ==
  /\ nAppends < MaxAppends
  /\ LET r == segmentAppend(Cur, activeSegment, v)
     IN /\ SetLog(r.L)
        /\ last' = Call("segment.Append", v, r.off, NoRecord, r.err)
        /\ hist' = IF r.err = Nil THEN Append(hist, [off |-> r.off, value |-> v]) ELSE hist
  /\ nAppends' = nAppends + 1
  /\ UNCHANGED thr
  /\ UNCHANGED <<Config, dirExists, rd, nTruncates, nCloses, nReopens>>

SegRead(rel) ==
  /\ LET r == segmentRead(Cur, activeSegment, Config.InitialOffset + rel)
     IN /\ SetLog(r.L)
        /\ last' = Call("segment.Read", Config.InitialOffset + rel, 0, r.rec, r.err)
  /\ UNCHANGED thr
  /\ UNCHANGED <<Config, dirExists, rd, hist, nAppends, nTruncates, nCloses, nReopens>>

NextSeg ==
  \/ \E v \in Values : SegAppend(v)
  \/ \E rel \in SegOffsets : SegRead(rel)

SpecSeg == InitRot /\ [][NextSeg]_vars

(***************************************************************************)
(* One index on its own: the index NewLog opened on the empty file of the  *)
(* first segment, written, read, closed and opened again directly.          *)
(***************************************************************************)
IdxConfigs ==
  { [MaxStoreBytes |-> 0, MaxIndexBytes |-> entWidth * k + slack, InitialOffset |-> 0] :
      k \in 0 .. MaxK, slack \in {0, 5} }
IdxEntries == { <<0, 0>>, <<1, 11>>, <<300, 70000>> }
IdxReads == -1 .. MaxAppends

InitIdx == InitWith(IdxConfigs)

TheIndex == segs[activeSegment].index
TheIndexFile == dir[IndexName(segs[activeSegment])]

SetIndex(i, file) ==
  /\ segs' = [segs EXCEPT ![activeSegment].index = i]
  /\ dir' = Put(dir, IndexName(segs[activeSegment]), file)

IdxWrite(off, pos) ==
  /\ nAppends < MaxAppends
  /\ ~TheIndex.closed
  /\ LET w == indexWrite(TheIndex, off, pos)
     IN /\ SetIndex(w.idx, w.idx.mMap)
        /\ last' = Call("index.Write", off, pos, NoRecord, w.err)
        /\ hist' = IF w.err = Nil THEN Append(hist, [off |-> off, value |-> pos]) ELSE hist
  /\ nAppends' = nAppends + 1
  /\ UNCHANGED thr
  /\ UNCHANGED <<segments, activeSegment, Config, dirExists, rd, nTruncates, nCloses, nReopens>>

IdxRead(n) ==
  /\ LET r == indexRead(TheIndex, n)
     IN last' = Call("index.Read", n, r.out, [value |-> <<>>, offset |-> r.pos], r.err)
  /\ UNCHANGED thr
  /\ UNCHANGED <<segs, segments, activeSegment, dir, Config, dirExists, rd, hist,
                 nAppends, nTruncates, nCloses, nReopens>>

IdxClose ==
  /\ nCloses < MaxCloses
  /\ LET c == indexClose(TheIndex, TheIndexFile)
     IN /\ SetIndex(c.idx, c.file)
        /\ last' = Call("index.Close", 0, 0, NoRecord, c.err)
  /\ nCloses' = nCloses + 1
  /\ UNCHANGED thr
  /\ UNCHANGED <<segments, activeSegment, Config, dirExists, rd, hist, nAppends, nTruncates, nReopens>>

(* newIndex on the file of the closed index *)
IdxOpen ==
  /\ nReopens < MaxReopens
  /\ TheIndex.closed
  /\ LET n == newIndex(TheIndexFile, Config)
     IN SetIndex(n.idx, n.file)
  /\ last' = Call("newIndex", 0, 0, NoRecord, Nil)
  /\ nReopens' = nReopens + 1
  /\ UNCHANGED thr
  /\ UNCHANGED <<segments, activeSegment, Config, dirExists, rd, hist, nAppends, nTruncates, nCloses>>

NextIdx ==
  \/ \E e \in IdxEntries : IdxWrite(e[1], e[2])
  \/ \E n \in IdxReads : IdxRead(n)
  \/ IdxClose
  \/ IdxOpen

SpecIdx == InitIdx /\ [][NextIdx]_vars

(***************************************************************************)
(* An append whose index write fails.  index.Write fails on a full map:     *)
(* with a limit below one entry, or when NewLog opens a directory whose     *)
(* last index is exactly as long as the limit it is given.                   *)
(***************************************************************************)
ReopenConfigs == { [MaxStoreBytes |-> 0, MaxIndexBytes |-> 0, InitialOffset |-> 0],
                   [MaxStoreBytes |-> 0, MaxIndexBytes |-> entWidth * 2, InitialOffset |-> 0] }

(* no index file of the directory is longer than the limit: newIndex cuts a *)
(* longer file and the entries past the cut cannot be read                   *)
Fits(d, c) == \A name \in DOMAIN d : name[2] = "index" => Len(d[name]) <= c.MaxIndexBytes

(* NewLog(dir, c) on the directory of the closed log *)
CallNewLogWith(c) ==
  /\ nReopens < MaxReopens
  /\ last.op = "Close" /\ last.err = Nil
  /\ Fits(dir, NewLogConfig(c))
  /\ Config' = NewLogConfig(c)
  /\ SetLog(setup(EmptyLog(dir), NewLogConfig(c)))
  /\ last' = Call("NewLog", 0, 0, NoRecord, Nil)
  /\ nReopens' = nReopens + 1
  /\ UNCHANGED thr
  /\ UNCHANGED <<dirExists, rd, hist, nAppends, nTruncates, nCloses>>

NextOrphan ==
  \/ \E v \in Values : CallAppend(v)
  \/ \E off \in Offsets : CallRead(off)
  \/ CallHighestOffset
  \/ CallClose
  \/ \E c \in ReopenConfigs : CallNewLogWith(c)

SpecOrphan == InitAny /\ [][NextOrphan]_vars

(***************************************************************************)
(* Threads in Append while a stream of Log.Reader is read.  Reader() holds *)
(* the lock shared while it takes the snapshot, so no Append is inside;    *)
(* the reads of the stream take no lock of the log.                         *)
(***************************************************************************)
StreamConfigs == ConcConfigs \cup { [MaxStoreBytes |-> 0, MaxIndexBytes |-> 5, InitialOffset |-> 0] }

InitStream == InitWith(StreamConfigs)

NextStream ==
  \/ \E t \in Threads :
       \/ \E v \in Values : TBegin(t, "Append", v)
       \/ TAppendStore(t)
       \/ TAppendIndex(t)
       \/ TRotate(t)
       \/ TReturn(t)
  \/ CallReader
  \/ \E n \in ChunkSizes : StreamRead(n)

SpecStream == InitStream /\ [][NextStream]_vars

(***************************************************************************)
(* Properties                                                              *)
(***************************************************************************)
TailSeg(L) == L.segs[L.segments[Len(L.segments)]]
LastOff == hist[Len(hist)].off
Bases(L) == [i \in 1 .. Len(L.segments) |-> L.segs[L.segments[i]].baseOffset]
Nexts(L) == [i \in 1 .. Len(L.segments) |-> L.segs[L.segments[i]].nextOffset]
ReadsBack(L, h) ==
  LET r == LogRead(L, h.off)
  IN r.err = Nil /\ r.rec = [value |-> h.value, offset |-> h.off]

(* C1: on a fresh log that only saw appends and reads, Log.Read of every     *)
(* offset an Append returned succeeds and yields the payload of that Append  *)
(* with the offset field set to it, across segment rotations.                *)
C1_RoundTrip ==
  /\ \A i \in 1 .. Len(hist) : ReadsBack(Cur, hist[i])
  /\ \A i \in 1 .. Len(hist) :
       (last.op = "Read" /\ last.arg = hist[i].off)
         => (last.err = Nil /\ last.rec = [value |-> hist[i].value, offset |-> hist[i].off])

C1_Witness ==
  /\ last.op = "Read" /\ last.err = Nil
  /\ Len(hist) >= 4 /\ Len(segments) >= 2
  /\ last.arg = hist[1].off /\ last.rec.value = hist[1].value
  /\ hist[1].value # hist[2].value

(* C2: the successful appends of one log return the initial offset, then     *)
(* each time exactly one more, also across a rotation.                       *)
C2_MonotonicOffsets ==
  \A i \in 1 .. Len(hist) : hist[i].off = Config.InitialOffset + (i - 1)

C2_Witness ==
  /\ last.op = "Append" /\ last.err = Nil
  /\ Len(segments) >= 2 /\ Len(hist) >= 2
  /\ last.off = segs[activeSegment].baseOffset
  /\ last.off = hist[Len(hist) - 1].off + 1

(* C3: with several threads in Append, Read, LowestOffset and HighestOffset  *)
(* at once, the offsets returned by successful appends are pairwise distinct *)
(* and fill a range without gaps, each of them reads back the record of the  *)
(* append that got it, and no base offset gets a second segment.             *)
C3_ConcurrentAppends ==
  /\ \A i, j \in 1 .. Len(hist) : i # j => hist[i].off # hist[j].off
  /\ {hist[i].off : i \in 1 .. Len(hist)}
       = Config.InitialOffset .. (Config.InitialOffset + Len(hist) - 1)
  /\ \A i \in 1 .. Len(hist) : ReadsBack(Cur, hist[i])
  /\ \A i \in 1 .. Len(hist) :
       (last.op = "Read" /\ last.arg = hist[i].off)
         => (last.err = Nil /\ last.rec = [value |-> hist[i].value, offset |-> hist[i].off])
  /\ \A i, j \in 1 .. Len(segments) : i < j => Bases(Cur)[i] < Bases(Cur)[j]

C3_Witness ==
  /\ \A t \in Threads : loc[t].done = 1
  /\ \E t \in Threads : pc[t] = "rotate" /\ mu = t
  /\ Len(segments) >= 2
  /\ last.op = "Read" /\ last.err = Nil

(* C4: a Read of an offset that no segment of the list holds (so, any        *)
(* offset when no record is held, any offset past HighestOffset, any offset  *)
(* below LowestOffset) fails with offset-out-of-range and leaves the log and *)
(* its files as they were.                                                   *)
NoSegmentHolds(L, o) == \A i \in 1 .. Len(L.segments) : ~InRange(L.segs[L.segments[i]], o)
HoldsNoRecord(L) ==
  \A i \in 1 .. Len(L.segments) :
    L.segs[L.segments[i]].nextOffset = L.segs[L.segments[i]].baseOffset
PastHighest(L, o) ==
  L.segments # <<>> /\ TailSeg(L).nextOffset > 0 /\ o >= (TailSeg(L).nextOffset - 1) + 1
BelowLowest(L, o) == L.segments # <<>> /\ o < L.segs[L.segments[1]].baseOffset

C4_ReadOutOfRange ==
  [][\A o \in Offsets :
       (/\ last'.op = "Read" /\ last'.arg = o
        /\ \/ NoSegmentHolds(Cur, o)
           \/ HoldsNoRecord(Cur)
           \/ PastHighest(Cur, o)
           \/ BelowLowest(Cur, o))
       => (/\ last'.err = ErrOffsetOutOfRange
           /\ UNCHANGED <<segs, segments, activeSegment, dir>>)]_vars

C4_Witness ==
  /\ last.op = "Read" /\ last.err = ErrOffsetOutOfRange
  /\ nTruncates > 0 /\ segments # <<>>
  /\ \E i \in 1 .. Len(hist) : hist[i].off = last.arg
  /\ BelowLowest(Cur, last.arg)

(* C5: the segment list is never empty and the active segment is its last    *)
(* element.                                                                  *)
C5_ActiveIsTail ==
  /\ segments # <<>>
  /\ activeSegment = segments[Len(segments)]

(* C6: Truncate(lowest) leaves every record at an offset >= lowest that was  *)
(* readable before the call readable, with the same content, after it.       *)
C6_TruncateKeepsNewer ==
  [][nTruncates' = nTruncates + 1 =>
       \A o \in Offsets :
         (o >= last'.arg /\ LogRead(Cur, o).err = Nil)
           => (LogRead(Cur', o).err = Nil /\ LogRead(Cur', o).rec = LogRead(Cur, o).rec)]_vars

(* C7: Truncate(lowest) returns without error, the list afterwards is the    *)
(* list before without the segments whose nextOffset <= lowest + 1, in the   *)
(* same order; the kept segments and their files are untouched, the removed  *)
(* ones are closed and their files are gone.                                 *)
Removed(L, lowest) ==
  {L.segments[i] : i \in {j \in 1 .. Len(L.segments) : L.segs[L.segments[j]].nextOffset <= lowest + 1}}

KeepTest(id) == id \notin Removed(Cur, last'.arg)

C8_UsableAfterTruncate ==
  [][(/\ last.op = "Truncate" /\ last.err = Nil
      /\ hist # <<>> /\ last.arg >= LastOff)
     => /\ last'.op = "Append" => (last'.err = Nil /\ last'.off = LastOff + 1)
        /\ last'.op = "LowestOffset" => last'.err = Nil
        /\ last'.op = "HighestOffset" => last'.err = Nil]_vars

(* C9, as stated: HighestOffset returns 0 when the tail segment holds no     *)
(* record, else nextOffset - 1 of the last segment.                          *)
C9_HighestOffsetZeroWhenTailEmpty ==
  last.op = "HighestOffset" =>
    /\ last.err = Nil
    /\ last.off = IF TailSeg(Cur).nextOffset = TailSeg(Cur).baseOffset THEN 0
                  ELSE TailSeg(Cur).nextOffset - 1

(* C9, amended: HighestOffset returns nextOffset - 1 of the last segment,    *)
(* whether or not that segment holds a record, and 0 when its nextOffset     *)
(* is 0.                                                                     *)
C9_HighestOffset ==
  last.op = "HighestOffset" =>
    /\ last.err = Nil
    /\ last.off = IF TailSeg(Cur).nextOffset = 0 THEN 0 ELSE TailSeg(Cur).nextOffset - 1

C9_Witness ==
  /\ last.op = "HighestOffset"
  /\ Len(segments) >= 2
  /\ TailSeg(Cur).nextOffset = TailSeg(Cur).baseOffset
  /\ last.off = LastOff /\ last.off > 0

(* C10: NewLog on the directory of a closed log gives a log whose segments   *)
(* have the base and next offsets the closed log had, the last one active;   *)
(* every offset assigned before reads back its payload, HighestOffset is the *)
(* last assigned offset and the next Append returns the one after it.        *)
C10_Reopen ==
  [][nReopens' = nReopens + 1 =>
       /\ Bases(Cur') = Bases(Cur)
       /\ Nexts(Cur') = Nexts(Cur)
       /\ activeSegment' = segments'[Len(segments')]
       /\ \A i \in 1 .. Len(hist) : ReadsBack(Cur', hist[i])
       /\ hist # <<>> =>
            /\ LogHighestOffset(Cur').off = LastOff
            /\ \A v \in Values :
                 LogAppend(Cur', Config, v).err = Nil /\ LogAppend(Cur', Config, v).off = LastOff + 1]_vars

C10_Witness ==
  /\ last.op = "NewLog" /\ nReopens > 0
  /\ Len(segments) >= 2 /\ Len(hist) >= 4
  /\ TailSeg(Cur).nextOffset > TailSeg(Cur).baseOffset

(* C11: once the stream of Log.Reader() was read to its end on a log that   *)
(* saw no Append since Reader() was called, the bytes read are the stores   *)
(* of the listed segments one after the other, and their frames decode to   *)
(* exactly the records the log holds, in offset order.                       *)
RECURSIVE FramesFrom(_, _)
FramesFrom(bs, at) ==
  IF at >= Len(bs) THEN [recs |-> <<>>, torn |-> FALSE]
  ELSE IF Len(bs) < at + lenWidth THEN [recs |-> <<>>, torn |-> TRUE]
  ELSE LET l == Uint(Slice(bs, at, at + lenWidth)) IN
       IF Len(bs) < at + lenWidth + l THEN [recs |-> <<>>, torn |-> TRUE]
       ELSE LET rest == FramesFrom(bs, at + lenWidth + l)
            IN [recs |-> <<Unmarshal(Slice(bs, at + lenWidth, at + lenWidth + l))>> \o rest.recs,
                torn |-> rest.torn]
Frames(bs) == FramesFrom(bs, 0)

RECURSIVE StoresConcat(_, _)
StoresConcat(L, ids) ==
  IF ids = <<>> THEN <<>>
  ELSE LET s == L.segs[Head(ids)]
       IN FileOr(L.dir, StoreName(s)) \o s.store.buf \o StoresConcat(L, Tail(ids))

RECURSIVE HeldRecords(_, _)
HeldRecords(L, ids) ==
  IF ids = <<>> THEN <<>>
  ELSE LET s == L.segs[Head(ids)]
       IN [k \in 1 .. (s.nextOffset - s.baseOffset) |->
             segmentRead(L, Head(ids), s.baseOffset + k - 1).rec]
          \o HeldRecords(L, Tail(ids))

StreamEnded == rd.open /\ rd.err = EOF

C11_ReaderYieldsRecords ==
  (StreamEnded /\ rd.na = nAppends) =>
    /\ rd.out = StoresConcat(Cur, segments)
    /\ ~Frames(rd.out).torn
    /\ Frames(rd.out).recs = HeldRecords(Cur, segments)

(* the same, on the logs whose appends all succeeded *)
C11_ReaderYieldsRecordsNoFailure ==
  (StreamEnded /\ rd.na = nAppends /\ Len(hist) = nAppends) =>
    /\ rd.out = StoresConcat(Cur, segments)
    /\ ~Frames(rd.out).torn
    /\ Frames(rd.out).recs = HeldRecords(Cur, segments)
    /\ Frames(rd.out).recs = [i \in 1 .. Len(hist) |-> [value |-> hist[i].value, offset |-> hist[i].off]]

C11_StreamOfTwoSegments ==
  /\ StreamEnded /\ rd.na = nAppends /\ Len(hist) = nAppends
  /\ Len(segments) >= 2 /\ Len(hist) >= 4

(* C12: whatever configuration NewLog accepted, no Log.Append returns the   *)
(* end-of-file error to its caller.                                          *)
C12_AppendNeverEOF == ~(last.op = "Append" /\ last.err = EOF)

(* C13: a Reset of a log that holds records returns without error and       *)
(* leaves exactly one segment, empty, active and at the configured initial  *)
(* offset; no record appended before is readable and the next Append        *)
(* returns the initial offset.                                               *)
C13_ResetReplaces ==
  [][(last'.op = "Reset" /\ ~HoldsNoRecord(Cur)) =>
       /\ last'.err = Nil
       /\ Len(segments') = 1 /\ activeSegment' = segments'[1]
       /\ segs'[activeSegment'].baseOffset = Config.InitialOffset
       /\ segs'[activeSegment'].nextOffset = Config.InitialOffset
       /\ \A i \in 1 .. Len(hist) : LogRead(Cur', hist[i].off).err # Nil
       /\ \A v \in Values : LogAppend(Cur', Config, v).err = Nil
                            /\ LogAppend(Cur', Config, v).off = Config.InitialOffset]_vars

(* C14: no Close, Remove, Reset or Truncate call closes a segment that was  *)
(* closed before.  Close (and so Remove and Reset) calls segment.Close on   *)
(* the listed segments in order, Truncate on the listed segments it         *)
(* removes, and closing an open segment succeeds, so the call reaches the   *)
(* first closed segment among them.                                          *)
IsClosed(s) == s.index.closed \/ s.store.closed

C14_NeverClosedAgain ==
  [][/\ last'.op \in {"Close", "Remove", "Reset"} =>
          \A i \in 1 .. Len(segments) : ~IsClosed(segs[segments[i]])
     /\ last'.op = "Truncate" =>
          \A i \in 1 .. Len(segments) :
            TruncateCond(segs[segments[i]], last'.arg) => ~IsClosed(segs[segments[i]])]_vars

(* C14, what does hold: the second segment.Close fails in index.Close       *)
(* before a file is closed, so the files of a segment are closed at most    *)
(* once, and after a Close, Remove or Reset every listed segment is closed.  *)
ClosedOnce(s) == s.index.closed /\ s.store.closed /\ s.index.closes = 1 /\ s.store.closes = 1

C14_FilesClosedOnce ==
  /\ \A id \in 1 .. Len(segs) : segs[id].index.closes <= 1 /\ segs[id].store.closes <= 1
  /\ last.op \in {"Close", "Remove", "Reset"} =>
       \A i \in 1 .. Len(segments) : ClosedOnce(segs[segments[i]])

(* C15: with room for k index entries per segment, k+1 appends to a fresh   *)
(* log at base offset base leave exactly two segments, [base, base+k) and   *)
(* the active [base+k, base+k+1), for every k >= 1.                          *)
K == Config.MaxIndexBytes \div entWidth
Base == Config.InitialOffset
Ranges(L) == [i \in 1 .. Len(L.segments) |-> <<Bases(L)[i], Nexts(L)[i]>>]
AppendedKPlus1 == nAppends = K + 1 /\ Len(hist) = K + 1

C15_TwoSegments ==
  AppendedKPlus1 =>
    /\ Ranges(Cur) = << <<Base, Base + K>>, <<Base + K, Base + K + 1>> >>
    /\ activeSegment = segments[2]

(* C15, amended: that holds for k >= 2; for k = 1 the second segment is     *)
(* full as well and a third, empty, segment is the active one.               *)
C15_RotationByIndex ==
  AppendedKPlus1 =>
    /\ K >= 2 => /\ Ranges(Cur) = << <<Base, Base + K>>, <<Base + K, Base + K + 1>> >>
                 /\ activeSegment = segments[2]
    /\ K = 1 => /\ Ranges(Cur) = << <<Base, Base + 1>>, <<Base + 1, Base + 2>>, <<Base + 2, Base + 2>> >>
                /\ activeSegment = segments[3]
    /\ \A i \in 1 .. Len(hist) : hist[i].off = Base + i - 1 /\ ReadsBack(Cur, hist[i])

C15_Witness ==
  /\ AppendedKPlus1 /\ K = 3 /\ Base = 16
  /\ Len(segments) = 2 /\ activeSegment = segments[2]
  /\ last.op = "HighestOffset" /\ last.off = Base + K

(* C16: after any appends, rotations, truncations and close/reopen, the     *)
(* segment list is sorted by base offset and each segment starts where the  *)
(* one before it ends.                                                       *)
C16_Contiguous ==
  /\ \A i \in 1 .. Len(segments) : Bases(Cur)[i] <= Nexts(Cur)[i]
  /\ \A i, j \in 1 .. Len(segments) : i < j => Bases(Cur)[i] <= Bases(Cur)[j]
  /\ \A i \in 1 .. Len(segments) - 1 : Bases(Cur)[i + 1] = Nexts(Cur)[i]

C16_Witness ==
  /\ nReopens = 1 /\ nTruncates > 0 /\ last.op = "NewLog"
  /\ Len(segments) >= 2
  /\ Bases(Cur)[1] > Config.InitialOffset
  /\ Nexts(Cur)[1] > Bases(Cur)[1]

(* C17: a segment at base offset b with room for k index entries takes k    *)
(* appends, which return b, b+1, ..., b+k-1 and read back at once; every    *)
(* further append fails with end-of-file and leaves nextOffset alone; and   *)
(* the segment is maxed exactly from the k-th append on.                     *)
TheSegment == segs[activeSegment]

C17_SegmentFullness ==
  /\ nAppends <= K => Len(hist) = nAppends
  /\ nAppends > K => Len(hist) = K
  /\ (last.op = "segment.Append" /\ nAppends <= K) =>
       last.err = Nil /\ last.off = Base + nAppends - 1
  /\ (last.op = "segment.Append" /\ nAppends > K) => last.err = EOF
  /\ TheSegment.nextOffset = Base + Len(hist)
  /\ \A i \in 1 .. Len(hist) :
       /\ hist[i].off = Base + i - 1
       /\ segmentRead(Cur, activeSegment, hist[i].off).err = Nil
       /\ segmentRead(Cur, activeSegment, hist[i].off).rec
            = [value |-> hist[i].value, offset |-> hist[i].off]
       /\ (last.op = "segment.Read" /\ last.arg = hist[i].off) =>
            last.err = Nil /\ last.rec = [value |-> hist[i].value, offset |-> hist[i].off]
  /\ IsMaxed(TheSegment, Config) <=> Len(hist) >= K

C17_Witness ==
  /\ K = 3 /\ Base = 16 /\ nAppends = K + 1
  /\ last.op = "segment.Append" /\ last.err = EOF
  /\ TheSegment.nextOffset = Base + K
  /\ IsMaxed(TheSegment, Config)

(* C18: an index opened on an empty file holds the m entries written to it: *)
(* its size is m entries, Read(n) returns the n-th written pair for         *)
(* 0 <= n < m, Read(-1) the last one, every other Read fails with           *)
(* end-of-file; a Write fails exactly when the next entry does not fit, and *)
(* changes nothing then; the closed file is m entries long, and all of that *)
(* is so again after the index was opened on the closed file.                *)
Written == Len(hist)
EntryRead(n) == indexRead(TheIndex, n)

C18_IndexCloseReopen ==
  /\ TheIndex.size = Written * entWidth
  /\ Written * entWidth <= Config.MaxIndexBytes
  /\ TheIndex.closed => Len(TheIndexFile) = Written * entWidth
  /\ ~TheIndex.closed => Len(TheIndexFile) = Config.MaxIndexBytes
  /\ \A n \in 0 .. MaxAppends :
       IF n < Written
       THEN /\ EntryRead(n).err = Nil
            /\ EntryRead(n).out = hist[n + 1].off
            /\ EntryRead(n).pos = hist[n + 1].value
       ELSE EntryRead(n).err = EOF
  /\ IF Written = 0 THEN EntryRead(-1).err = EOF
     ELSE /\ EntryRead(-1).err = Nil
          /\ EntryRead(-1).out = hist[Written].off
          /\ EntryRead(-1).pos = hist[Written].value
  /\ last.op = "index.Read" =>
       /\ last.err = EntryRead(last.arg).err
       /\ last.off = EntryRead(last.arg).out
       /\ last.rec.offset = EntryRead(last.arg).pos
  /\ last.op = "index.Write" =>
       IF last.err = Nil THEN hist[Written] = [off |-> last.arg, value |-> last.off]
       ELSE last.err = EOF /\ (Written + 1) * entWidth > Config.MaxIndexBytes

C18_Witness ==
  /\ nReopens = 1 /\ Written = 3 /\ Config.MaxIndexBytes > 3 * entWidth
  /\ hist[3] = [off |-> 300, value |-> 70000]
  /\ last.op = "index.Read" /\ last.arg = -1 /\ last.err = Nil
  /\ last.off = 300 /\ last.rec.offset = 70000

(* C19: an Append that fails in the index write after its frame went into   *)
(* the store leaves the list, the active segment's nextOffset and           *)
(* HighestOffset as they were and every Read answers as before; the next    *)
(* successful Append gets the offset the failed one would have had; and     *)
(* after a close and a reopen the reads answer as before the failed append  *)
(* and the next Append there gets that offset and reads back.                *)
ReadsSame(L1, L2) ==
  \A o \in Offsets : /\ LogRead(L1, o).err = LogRead(L2, o).err
                     /\ LogRead(L1, o).rec = LogRead(L2, o).rec
Reopened(L, c) == setup(EmptyLog(LogClose(L).L.dir), NewLogConfig(c))
AppendsAt(L, c, off) ==
  \A v \in Values :
    LET a == LogAppend(L, c, v)
    IN a.err = Nil => /\ a.off = off
                      /\ LogRead(a.L, off).err = Nil
                      /\ LogRead(a.L, off).rec = [value |-> v, offset |-> off]
FailedAppendStep ==
  /\ last'.op = "Append" /\ last'.err # Nil
  /\ segs'[activeSegment].store.size > segs[activeSegment].store.size

C19_FailedAppendInvisible ==
  [][FailedAppendStep =>
       /\ segments' = segments /\ activeSegment' = activeSegment
       /\ segs'[activeSegment].nextOffset = segs[activeSegment].nextOffset
       /\ LogHighestOffset(Cur') = LogHighestOffset(Cur)
       /\ ReadsSame(Cur', Cur)
       /\ AppendsAt(Cur', Config, segs[activeSegment].nextOffset)
       /\ \A c \in ReopenConfigs :
            (Fits(LogClose(Cur').L.dir, NewLogConfig(c)) /\ LogClose(Cur').err = Nil) =>
              /\ ReadsSame(Reopened(Cur', c), Cur)
              /\ Nexts(Reopened(Cur', c)) = Nexts(Cur)
              /\ AppendsAt(Reopened(Cur', c), NewLogConfig(c), segs[activeSegment].nextOffset)]_vars

(* a failed append on a log that holds two records *)
C19_Witness ==
  /\ last.op = "Append" /\ last.err = EOF
  /\ nReopens = 1 /\ Len(hist) = 2
  /\ segs[activeSegment].nextOffset = 2
  /\ segs[activeSegment].store.size > Len(dir[StoreName(segs[activeSegment])])
  /\ LogClose(Cur).err = Nil
  /\ \E v \in Values :
       LogAppend(Reopened(Cur, [MaxStoreBytes |-> 0, MaxIndexBytes |-> 0, InitialOffset |-> 0]),
                 NewLogConfig([MaxStoreBytes |-> 0, MaxIndexBytes |-> 0, InitialOffset |-> 0]), v).err = Nil

(* C20: what a stream of Log.Reader() has yielded while threads append is a *)
(* prefix of the stores of the snapshot's segments; read to its end it      *)
(* holds whole frames only, which decode to a prefix of the log's records   *)
(* in offset order, all of them records of the snapshot's segments, and     *)
(* among them every record appended before Reader() was called.  (The       *)
(* records are compared once no Append is between its store write and its   *)
(* index write.)                                                             *)
IsPrefix(a, b) == Len(a) <= Len(b) /\ a = SubSeq(b, 1, Len(a))
NoAppendInFlight == \A t \in Threads : pc[t] # "index"

C20_ReaderUnderAppends ==
  /\ rd.open => IsPrefix(rd.out, StoresConcat(Cur, rd.snap))
  /\ StreamEnded => ~Frames(rd.out).torn
  /\ (StreamEnded /\ NoAppendInFlight) =>
       /\ IsPrefix(Frames(rd.out).recs, HeldRecords(Cur, segments))
       /\ IsPrefix(Frames(rd.out).recs, HeldRecords(Cur, rd.snap))
       /\ Len(Frames(rd.out).recs) >= rd.hl
       /\ \A i \in 1 .. rd.hl :
            Frames(rd.out).recs[i] = [value |-> hist[i].value, offset |-> hist[i].off]

(* the same, as long as no Append has failed *)
NoAppendFailed ==
  Len(hist) + Cardinality({t \in Threads : pc[t] # "idle" /\ loc[t].err = Nil}) = nAppends

C20_ReaderUnderAppendsNoFailure == NoAppendFailed => C20_ReaderUnderAppends

(* a stream that ended with records appended before the snapshot, while it  *)
(* was read, and after its end, the last of them in a new segment            *)
C20_StreamWhileAppending ==
  /\ StreamEnded /\ NoAppendFailed
  /\ rd.hl >= 1 /\ Len(Frames(rd.out).recs) > rd.hl
  /\ Len(hist) > Len(Frames(rd.out).recs)
  /\ Len(segments) > Len(rd.snap)

====
